---- MODULE Spec2Model ----
(***************************************************************************)
(* Google review generator: the web dashboard (app.py), the terminal menu  *)
(* (review_menu.py, test_batch_reviews.py), the background task runner     *)
(* (background_runner.py), the profile store and batch runner              *)
(* (chrome_profiles.py) and the review poster (simple_review.py).          *)
(*                                                                         *)
(* Text is a sequence of one-character strings, an optional value is a     *)
(* sequence of length 0 (None) or 1, a file is a record with an `exists`   *)
(* flag.                                                                   *)
(***************************************************************************)
EXTENDS Integers, Sequences, FiniteSets, TLC

(* ------------------------------ bounds --------------------------------- *)
\* most profiles stored in chrome_profiles.yaml
MaxProfiles == 2
\* largest number of reviews a front end is asked for
MaxReviews == 3
\* most accounts stored in accounts.yaml
MaxAccounts == 2
\* the number of pieces a typed URL is made of
MaxUrlParts == 2
\* the number of calls of update_task_progress beside one task
MaxUpdates == 2

(* ------------------------- optional values ----------------------------- *)
None == <<>>
Some(x) == <<x>>
IsNone(o) == Len(o) = 0
Get(o) == o[1]

(* ------------------------------ text ----------------------------------- *)
Digits == {"0", "1", "2", "3", "4", "5", "6", "7", "8", "9"}

DigitVal(c) ==
    CASE c = "0" -> 0 [] c = "1" -> 1 [] c = "2" -> 2 [] c = "3" -> 3
      [] c = "4" -> 4 [] c = "5" -> 5 [] c = "6" -> 6 [] c = "7" -> 7
      [] c = "8" -> 8 [] c = "9" -> 9

RECURSIVE lstrip(_)
lstrip(s) == IF s # <<>> /\ Head(s) = " " THEN lstrip(Tail(s)) ELSE s

RECURSIVE rstrip(_)
rstrip(s) ==
    IF s # <<>> /\ s[Len(s)] = " " THEN rstrip(SubSeq(s, 1, Len(s) - 1)) ELSE s

\* str.strip()
strip(s) == rstrip(lstrip(s))

RECURSIVE DigitsValue(_)
DigitsValue(d) ==
    IF d = <<>> THEN 0
    ELSE 10 * DigitsValue(SubSeq(d, 1, Len(d) - 1)) + DigitVal(d[Len(d)])

\* int(x): x is an optional text; None raises TypeError, a text that is not
\* [spaces][sign]digits[spaces] raises ValueError.
PyInt(x) ==
    IF IsNone(x) THEN [ok |-> FALSE, err |-> "TypeError", val |-> 0]
    ELSE LET t == strip(Get(x))
             signed == t # <<>> /\ t[1] \in {"-", "+"}
             neg == t # <<>> /\ t[1] = "-"
             d == IF signed THEN Tail(t) ELSE t
             good == d # <<>> /\ \A i \in 1..Len(d) : d[i] \in Digits
         IN IF good
            THEN [ok |-> TRUE, err |-> "",
                  val |-> IF neg THEN 0 - DigitsValue(d) ELSE DigitsValue(d)]
            ELSE [ok |-> FALSE, err |-> "ValueError", val |-> 0]

\* the first piece of s.split(sep)
RECURSIVE SplitHead(_, _)
SplitHead(s, sep) ==
    IF s = <<>> \/ Head(s) = sep THEN <<>>
    ELSE <<Head(s)>> \o SplitHead(Tail(s), sep)

\* seq * k (list repetition)
RECURSIVE Repeat(_, _)
Repeat(s, k) == IF k <= 0 THEN <<>> ELSE s \o Repeat(s, k - 1)

\* seq[:n]
Take(s, n) == SubSeq(s, 1, IF n < Len(s) THEN n ELSE Len(s))

\* the number of positions of s that hold x
RECURSIVE Count(_, _)
Count(s, x) ==
    IF s = <<>> THEN 0
    ELSE (IF Head(s) = x THEN 1 ELSE 0) + Count(Tail(s), x)

\* all orders of the sequence s
Permutations_(s) ==
    { [i \in 1..Len(s) |-> s[f[i]]] :
        f \in { g \in [1..Len(s) -> 1..Len(s)] :
                  \A i, j \in 1..Len(s) : i # j => g[i] # g[j] } }

(* ------------------------------ state ---------------------------------- *)
VARIABLES
    configFile,       \* chrome_profiles.yaml
    accountsFile,     \* accounts.yaml
    populated,        \* the profile directories that exist and are not empty
    directUrlFile,    \* direct_review_url.txt
    businessUrlFile,  \* business_url.txt
    taskFiles,        \* background_tasks/<task_id>.json
    now,              \* int(time.time())
    req,              \* the front-end request being served, as submitted
    task,             \* the background process (run_function_and_update_status)
    batch,            \* the frame of run_batch_reviews
    lastReview,       \* the latest call of post_review
    last,             \* the latest store operation and what it returned
    chrome,           \* the browser of initialize_profile and its Google session
    procs             \* the frames of processes that rewrite a file concurrently

vars == <<configFile, accountsFile, populated, directUrlFile, businessUrlFile,
          taskFiles, now, req, task, batch, lastReview, last, chrome, procs>>

(* --------------------------- stored values ----------------------------- *)
\* a profile of chrome_profiles.yaml (created_at, a timestamp, is left out)
Profile(name, path, account) == [name |-> name, path |-> path, account |-> account]

Account(username, password) == [username |-> username, password |-> password]

DefaultProfilePath(name) == <<"chrome_profiles/">> \o name

\* os.path.join(os.getcwd(), "chrome_profile")
DefaultChromePath == <<"chrome_profile">>

MissingConfig == [exists |-> FALSE, profiles |-> <<>>, randomize_order |-> TRUE]

create_default_config == [exists |-> TRUE, profiles |-> <<>>, randomize_order |-> TRUE]

\* load_config() over the file as it is on disk: a missing file is replaced by
\* the default configuration, which is written to disk
load_config(file) == IF file.exists THEN file ELSE create_default_config

MissingAccounts == [exists |-> FALSE, fmt |-> "list", accts |-> <<>>]

MissingText == [exists |-> FALSE, text |-> <<>>]

TextFile(t) == [exists |-> TRUE, text |-> t]

(* --------------------------- task files -------------------------------- *)
TaskPrefixes == {"review", "batch"}

TaskIds == TaskPrefixes \X {0}

MissingTask == [exists |-> FALSE, status |-> "", result |-> None, error |-> None,
                progress |-> 0]

\* task_status as run_function_and_update_status first builds it
InitialTaskStatus ==
    [exists |-> TRUE, status |-> "running", result |-> None, error |-> None,
     progress |-> 0]

(* ------------------------- post_review --------------------------------- *)
StepNames == {"initialize_chrome_driver", "login_to_google", "get_url",
              "find_and_click_review_button", "form_screenshot", "set_star_rating",
              "enter_review_text", "submit_review", "save_screenshot"}

\* what a step can do: return a true value, return a false value, raise
StepOutcomes(step) ==
    CASE step \in {"initialize_chrome_driver", "login_to_google"} -> {"ok", "fail"}
      [] step \in {"get_url", "form_screenshot", "save_screenshot"} -> {"ok", "raise"}
      [] OTHER -> {"ok", "fail", "raise"}

Outcomes == { o \in [StepNames -> {"ok", "fail", "raise"}] :
                \A s \in StepNames : o[s] \in StepOutcomes(s) }

AllOk == [s \in StepNames |-> "ok"]

\* the outcomes in which one step fails and every other step succeeds
OutcomeScripts ==
    {AllOk} \cup UNION { { [AllOk EXCEPT ![s] = how] : how \in StepOutcomes(s) } :
                           s \in StepNames }

\* the step outcomes tried for the reviews of a request: every step succeeds,
\* the login fails, the submission fails, the submission raises
RequestOutcomes ==
    {AllOk, [AllOk EXCEPT !["login_to_google"] = "fail"],
     [AllOk EXCEPT !["submit_review"] = "fail"],
     [AllOk EXCEPT !["submit_review"] = "raise"]}

Did(steps, name, o) == Append(steps, [step |-> name, outcome |-> o[name]])

Returned(steps, result) == [steps |-> steps, result |-> result]

\* the result of enter_review_text is not looked at
ReviewForm_IgnoresText(steps, o) ==
    LET s0 == Did(steps, "form_screenshot", o)
        s5 == Did(s0, "set_star_rating", o)
        s6 == Did(s5, "enter_review_text", o)
        s7 == Did(s6, "submit_review", o)
        s8 == Did(s7, "save_screenshot", o)
    IN IF o["form_screenshot"] # "ok" THEN Returned(s0, FALSE)
       ELSE IF o["set_star_rating"] # "ok" THEN Returned(s5, FALSE)
       ELSE IF o["enter_review_text"] = "raise" THEN Returned(s6, FALSE)
       ELSE IF o["submit_review"] = "raise" THEN Returned(s7, FALSE)
       ELSE IF o["save_screenshot"] # "ok" THEN Returned(s8, FALSE)
       ELSE Returned(s8, o["submit_review"] = "ok")

\* post_review from "Step 5" on: the form, the submission, the last screenshot
ReviewForm(steps, o) ==
    LET s0 == Did(steps, "form_screenshot", o)
        s5 == Did(s0, "set_star_rating", o)
        s6 == Did(s5, "enter_review_text", o)
        s7 == Did(s6, "submit_review", o)
        s8 == Did(s7, "save_screenshot", o)
    IN IF o["form_screenshot"] # "ok" THEN Returned(s0, FALSE)
       ELSE IF o["set_star_rating"] # "ok" THEN Returned(s5, FALSE)
       ELSE IF o["enter_review_text"] # "ok" THEN Returned(s6, FALSE)
       ELSE IF o["submit_review"] = "raise" THEN Returned(s7, FALSE)
       ELSE IF o["save_screenshot"] # "ok" THEN Returned(s8, FALSE)
       ELSE Returned(s8, o["submit_review"] = "ok")

\* post_review(profile, rating, review_text) under the step outcomes o; the
\* rating and the text only reach set_star_rating and enter_review_text
post_review(profile, o) ==
    LET s1 == Did(<<>>, "initialize_chrome_driver", o)
        s2 == Did(s1, "login_to_google", o)
        s3 == Did(s2, "get_url", o)
        s4 == Did(s3, "find_and_click_review_button", o)
    IN IF o["initialize_chrome_driver"] # "ok" THEN Returned(s1, FALSE)
       ELSE IF o["login_to_google"] # "ok" THEN Returned(s2, FALSE)
       ELSE IF directUrlFile.exists
            THEN IF strip(directUrlFile.text) # <<>>
                 THEN IF o["get_url"] # "ok" THEN Returned(s3, FALSE)
                      ELSE ReviewForm(s3, o)
                 ELSE Returned(s2, FALSE)
       ELSE IF businessUrlFile.exists
            THEN IF strip(businessUrlFile.text) # <<>>
                 THEN IF o["get_url"] # "ok" THEN Returned(s3, FALSE)
                      ELSE IF o["find_and_click_review_button"] # "ok"
                           THEN Returned(s4, FALSE)
                           ELSE ReviewForm(s4, o)
                 ELSE Returned(s2, FALSE)
       ELSE Returned(s2, FALSE)

\* the directory Chrome is started in
ChromePath(profile) == IF IsNone(profile) THEN DefaultChromePath ELSE Get(profile).path

\* Chrome fills its user-data directory once it has started
Launched(profile, o) ==
    IF o["initialize_chrome_driver"] = "ok" THEN {ChromePath(profile)} ELSE {}

NoReview == [called |-> FALSE, caller |-> "none", profile |-> None, rating |-> None,
             review_text |-> None, steps |-> <<>>, result |-> FALSE]

ReviewCall(caller, profile, rating, review_text, o) ==
    LET r == post_review(profile, o)
    IN [called |-> TRUE, caller |-> caller, profile |-> profile, rating |-> rating,
        review_text |-> review_text, steps |-> r.steps, result |-> r.result]

(* ------------------------ run_batch_reviews ---------------------------- *)
IdleBatch ==
    [pc |-> "idle", caller |-> "none", stdin |-> TRUE, num_reviews |-> 0,
     rating_strategy |-> 3, fixed_rating |-> None, profiles |-> <<>>,
     selected |-> <<>>, toInit |-> <<>>, i |-> 0, success_count |-> 0,
     calls |-> <<>>]

\* the repeated list is one round short
SelectProfiles_OneRoundShort(num_reviews, p) ==
    LET idx == [i \in 1..p |-> i]
    IN IF num_reviews <= p THEN Take(idx, num_reviews)
       ELSE Take(Repeat(idx, num_reviews \div p), num_reviews)

\* the extra reviews all go to the first profile
SelectProfiles_RepeatsFirst(num_reviews, p) ==
    LET idx == [i \in 1..p |-> i]
    IN IF num_reviews <= p THEN Take(idx, num_reviews)
       ELSE Take(Repeat(Take(idx, 1), num_reviews), num_reviews)

\* "Determine which profiles to use": positions of the profile list
SelectProfiles(num_reviews, p) ==
    LET idx == [i \in 1..p |-> i]
    IN IF num_reviews <= p THEN Take(idx, num_reviews)
       ELSE Take(Repeat(idx, (num_reviews \div p) + 1), num_reviews)

\* the selected profiles whose directory is missing or empty
RECURSIVE profiles_to_initialize(_, _)
profiles_to_initialize(selected, profiles) ==
    IF selected = <<>> THEN <<>>
    ELSE (IF profiles[Head(selected)].path \notin populated
          THEN <<Head(selected)>> ELSE <<>>)
         \o profiles_to_initialize(Tail(selected), profiles)

\* run_batch_reviews up to the prompt or the first review
BatchBegin(caller, stdin, num_reviews, rating_strategy, fixed_rating) ==
    LET config == load_config(configFile)
        profiles == config.profiles
        chosen == SelectProfiles(num_reviews, Len(profiles))
        frame == [IdleBatch EXCEPT !.caller = caller, !.stdin = stdin,
                     !.num_reviews = num_reviews,
                     !.rating_strategy = rating_strategy,
                     !.fixed_rating = fixed_rating, !.profiles = profiles]
    IN /\ configFile' = config
       /\ IF profiles = <<>>
          THEN batch' = [frame EXCEPT !.pc = "returned"]
          ELSE \E selected \in (IF config.randomize_order
                                THEN Permutations_(chosen) ELSE {chosen}) :
                 LET toInit == profiles_to_initialize(selected, profiles)
                 IN batch' = [frame EXCEPT
                       !.pc = IF toInit # <<>> THEN "prompt" ELSE "loop",
                       !.selected = selected, !.toInit = toInit]

\* input("Do you want to initialize these profiles now? (y/n): "): without a
\* standard input it raises EOFError; 'y' runs initialize_profile on each
BatchPrompt ==
    /\ batch.pc = "prompt"
    /\ IF ~batch.stdin
       THEN /\ batch' = [batch EXCEPT !.pc = "raised"]
            /\ UNCHANGED populated
       ELSE \E initialize \in {"y", "n"} :
              \E started \in SUBSET { batch.profiles[batch.toInit[k]].path :
                                        k \in 1..Len(batch.toInit) } :
                /\ initialize = "n" => started = {}
                /\ populated' = populated \cup started
                /\ batch' = [batch EXCEPT !.pc = "loop"]
    /\ UNCHANGED <<chrome, procs, configFile, accountsFile, directUrlFile, businessUrlFile,
                   taskFiles, now, req, task, lastReview, last>>

\* the star rating of one review of the batch
BatchRatings(rating_strategy, fixed_rating) ==
    IF rating_strategy = 1 THEN {fixed_rating}
    ELSE { Some(r) : r \in 1..5 }

\* one turn of the "Run reviews" loop
BatchReview ==
    /\ batch.pc = "loop"
    /\ batch.i < Len(batch.selected)
    /\ \E rating \in BatchRatings(batch.rating_strategy, batch.fixed_rating),
          o \in RequestOutcomes :
         LET idx == batch.selected[batch.i + 1]
             profile == Some(batch.profiles[idx])
             review == ReviewCall("run_batch_reviews", profile, rating, None, o)
         IN /\ lastReview' = review
            /\ populated' = populated \cup Launched(profile, o)
            /\ batch' = [batch EXCEPT
                  !.i = @ + 1,
                  !.success_count = IF review.result THEN @ + 1 ELSE @,
                  !.calls = Append(@, [profile |-> idx, ok |-> review.result])]
    /\ UNCHANGED <<chrome, procs, configFile, accountsFile, directUrlFile, businessUrlFile,
                   taskFiles, now, req, task, last>>

\* return success_count
BatchReturn ==
    /\ batch.pc = "loop"
    /\ batch.i = Len(batch.selected)
    /\ batch' = [batch EXCEPT !.pc = "returned"]
    /\ UNCHANGED <<chrome, procs, configFile, accountsFile, populated, directUrlFile,
                   businessUrlFile, taskFiles, now, req, task, lastReview, last>>

(* ----------------------- background_runner.py -------------------------- *)
NoArgs ==
    [profile |-> None, rating |-> 0, review_text |-> None, num_reviews |-> 0,
     delay |-> 0, rating_strategy |-> 3, fixed_rating |-> None]

IdleTask ==
    [pc |-> "idle", id |-> <<"review", 0>>, func |-> "", keys |-> {},
     args |-> NoArgs, status |-> MissingTask, outcome |-> "none"]

\* module_name_mappings
ModuleNameMappings == [post_review |-> "simple_review",
                       run_batch_reviews |-> "chrome_profiles"]

\* the keyword parameters the target functions declare
Parameters(func) ==
    CASE func = "post_review" -> {"profile", "rating", "review_text"}
      [] func = "run_batch_reviews" ->
            {"num_reviews", "delay", "rating_strategy", "fixed_rating"}
      [] OTHER -> {}

\* str(result)
StrBool(b) == IF b THEN "True" ELSE "False"

Completed(status, result) ==
    [status EXCEPT !.status = "completed", !.result = Some(result), !.progress = 100]

\* the except block forgets to set the status
Failed_KeepsRunning(status, message) == [status EXCEPT !.error = Some(message)]

Failed(status, message) ==
    [status EXCEPT !.status = "failed", !.error = Some(message)]

\* run_process_in_background: the new process, about to run
\* run_function_and_update_status(task_id, None, func_name, args)
run_process_in_background(task_id, func_name, keys, args) ==
    [IdleTask EXCEPT !.pc = "spawned", !.id = task_id, !.func = func_name,
                     !.keys = keys, !.args = args]

\* "Save initial status"
TaskStart ==
    /\ task.pc = "spawned"
    /\ taskFiles' = [taskFiles EXCEPT ![task.id] = InitialTaskStatus]
    /\ task' = [task EXCEPT !.pc = "running", !.status = InitialTaskStatus]
    /\ UNCHANGED <<chrome, procs, configFile, accountsFile, populated, directUrlFile,
                   businessUrlFile, now, req, batch, lastReview, last>>

\* the try block: import the module, look the function up, call it
TaskCall ==
    /\ task.pc = "running"
    /\ \E imported \in BOOLEAN :
         IF task.func \notin DOMAIN ModuleNameMappings \/ ~imported
         THEN /\ task' = [task EXCEPT !.pc = "finishing", !.outcome = "ImportError",
                             !.status = Failed(@, "ImportError")]
              /\ UNCHANGED <<configFile, populated, batch, lastReview>>
         ELSE IF ~(task.keys \subseteq Parameters(task.func))
         THEN /\ task' = [task EXCEPT !.pc = "finishing", !.outcome = "TypeError",
                             !.status = Failed(@, "TypeError")]
              /\ UNCHANGED <<configFile, populated, batch, lastReview>>
         ELSE IF task.func = "post_review"
         THEN \E o \in RequestOutcomes :
                LET review == ReviewCall("task", task.args.profile,
                                         Some(task.args.rating),
                                         task.args.review_text, o)
                IN /\ lastReview' = review
                   /\ populated' = populated \cup Launched(task.args.profile, o)
                   /\ task' = [task EXCEPT !.pc = "finishing",
                                  !.outcome = "returned",
                                  !.status = Completed(@, StrBool(review.result))]
                   /\ UNCHANGED <<configFile, batch>>
         ELSE /\ BatchBegin("task", FALSE, task.args.num_reviews,
                            task.args.rating_strategy, task.args.fixed_rating)
              /\ task' = [task EXCEPT !.pc = "calling"]
              /\ UNCHANGED <<populated, lastReview>>
    /\ UNCHANGED <<chrome, procs, accountsFile, directUrlFile, businessUrlFile, taskFiles, now,
                   req, last>>

\* run_batch_reviews has returned to, or raised into, the try block
TaskCalled ==
    /\ task.pc = "calling"
    /\ batch.caller = "task"
    /\ batch.pc \in {"returned", "raised"}
    /\ task' = IF batch.pc = "returned"
               THEN [task EXCEPT !.pc = "finishing", !.outcome = "returned",
                        !.status = Completed(@, ToString(batch.success_count))]
               ELSE [task EXCEPT !.pc = "finishing", !.outcome = "EOFError",
                        !.status = Failed(@, "EOFError")]
    /\ UNCHANGED <<chrome, procs, configFile, accountsFile, populated, directUrlFile,
                   businessUrlFile, taskFiles, now, req, batch, lastReview, last>>

\* "Save final status" and return task_status
TaskFinish ==
    /\ task.pc = "finishing"
    /\ taskFiles' = [taskFiles EXCEPT ![task.id] = task.status]
    /\ task' = [task EXCEPT !.pc = "done"]
    /\ UNCHANGED <<chrome, procs, configFile, accountsFile, populated, directUrlFile,
                   businessUrlFile, now, req, batch, lastReview, last>>

(* --------------------------- front ends -------------------------------- *)
\* the text of the numbers 0..9
Numeral(n) == CHOOSE c \in Digits : DigitVal(c) = n

\* what a browser can submit in a numeric form field (None: field absent)
NumReviewsFields ==
    {None, Some(<<>>), Some(<<"x">>), Some(<<"-", "1">>), Some(<<" ", "2">>),
     Some(<<"1", ".", "5">>)}
    \cup { Some(<<Numeral(n)>>) : n \in 0..MaxReviews }

DelayFields == {None, Some(<<"x">>), Some(<<"-", "1">>), Some(<<"0">>), Some(<<"7">>)}

StrategyFields == {Some(<<"x">>), Some(<<"0">>), Some(<<"1">>), Some(<<"2">>)}

FixedRatingFields == {None, Some(<<"0">>), Some(<<"4">>)}

RatingFields ==
    {None, Some(<<"x">>), Some(<<"0">>), Some(<<"1">>), Some(<<"5">>), Some(<<"6">>),
     Some(<<" ", "3">>), Some(<<"-", "2">>), Some(<<"2", ".", "5">>)}

ReviewTexts == {<<>>, <<" ">>, <<"g">>}

ProfileFields == {None, Some(<<>>), Some(<<"0">>), Some(<<"1">>), Some(<<"x">>)}

\* what input() can return at a terminal: a text, never None
Typed(fields) == { f \in fields : ~IsNone(f) }

NoRequest ==
    [front |-> "none", outcome |-> "none", num_reviews |-> None,
     delay |-> None, rating |-> None]

Request(front, outcome, num_reviews, delay, rating) ==
    [front |-> front, outcome |-> outcome,
     num_reviews |-> num_reviews, delay |-> delay, rating |-> rating]

\* no request has been submitted yet: a behaviour follows one request from
\* any stored state to its end
Quiescent == req.front = "none"

\* the upper limit of the rating is not checked
RatingAccepted_NoUpperLimit(rating) ==
    LET r == PyInt(rating) IN r.ok /\ ~(r.val < 1)

\* the rating check of post_review_route and post_single_review
RatingAccepted(rating) ==
    LET r == PyInt(rating) IN r.ok /\ ~(r.val < 1 \/ r.val > 5)

\* "If fixed rating strategy, get the rating"
FixedRating(rating_strategy, fixed_rating) ==
    LET f == PyInt(fixed_rating)
    IN IF rating_strategy = 1
       THEN (IF f.ok /\ ~(f.val < 1 \/ f.val > 5) THEN Some(f.val) ELSE Some(5))
       ELSE None

\* POST /post_review
post_review_route ==
    /\ Quiescent
    /\ \E rating \in RatingFields, text \in ReviewTexts, profile_index \in ProfileFields :
         LET review_text == IF strip(text) = <<>> THEN None ELSE Some(strip(text))
             given == ~IsNone(profile_index) /\ Get(profile_index) # <<>>
             pidx == PyInt(profile_index)
             profiles == load_config(configFile).profiles
             profile == IF given /\ pidx.ok /\ 0 <= pidx.val /\ pidx.val < Len(profiles)
                        THEN Some(profiles[pidx.val + 1]) ELSE None
         IN IF ~RatingAccepted(rating)
            THEN /\ req' = Request("post_review_route", "rejected", None, None, rating)
                 /\ UNCHANGED <<configFile, task>>
            ELSE /\ req' = Request("post_review_route", "started", None, None, rating)
                 /\ configFile' = IF given THEN load_config(configFile) ELSE configFile
                 /\ task' = run_process_in_background(<<"review", now>>, "post_review",
                               {"profile", "rating", "review_text", "debug_folder"},
                               [NoArgs EXCEPT !.profile = profile,
                                              !.rating = PyInt(rating).val,
                                              !.review_text = review_text])
    /\ batch' = IdleBatch
    /\ UNCHANGED <<chrome, procs, accountsFile, populated, directUrlFile, businessUrlFile,
                   taskFiles, now, lastReview, last>>

\* POST /batch_reviews
batch_reviews ==
    /\ Quiescent
    /\ \E num_reviews \in NumReviewsFields, rating_strategy \in StrategyFields,
          fixed_rating \in FixedRatingFields, delay \in DelayFields :
         LET n == PyInt(num_reviews)
             rs == PyInt(rating_strategy)
             d == PyInt(delay)
             strategy == IF rs.val < 1 \/ rs.val > 3 THEN 3 ELSE rs.val
         IN IF ~(n.ok /\ rs.ok /\ d.ok) \/ n.val <= 0 \/ d.val < 0
            THEN /\ req' = Request("batch_reviews", "rejected", num_reviews, delay, None)
                 /\ UNCHANGED task
            ELSE /\ req' = Request("batch_reviews", "started", num_reviews, delay, None)
                 /\ task' = run_process_in_background(<<"batch", now>>,
                               "run_batch_reviews",
                               {"num_reviews", "delay", "rating_strategy", "fixed_rating"},
                               [NoArgs EXCEPT !.num_reviews = n.val, !.delay = d.val,
                                  !.rating_strategy = strategy,
                                  !.fixed_rating = FixedRating(strategy, fixed_rating)])
    /\ batch' = IdleBatch
    /\ UNCHANGED <<chrome, procs, configFile, accountsFile, populated, directUrlFile,
                   businessUrlFile, taskFiles, now, lastReview, last>>

\* the checks post_batch_reviews and test_batch_reviews.main make first
BatchFilesPresent ==
    /\ businessUrlFile.exists \/ directUrlFile.exists
    /\ accountsFile.exists
    /\ configFile.exists

\* review_menu.post_batch_reviews
post_batch_reviews ==
    /\ Quiescent
    /\ task' = IdleTask
    /\ IF ~BatchFilesPresent
       THEN /\ req' = Request("post_batch_reviews", "precheck", None, None, None)
            /\ batch' = IdleBatch
            /\ UNCHANGED configFile
       ELSE \E num_reviews \in Typed(NumReviewsFields),
               rating_strategy \in Typed(StrategyFields),
               fixed_rating \in Typed(FixedRatingFields),
               delay \in Typed(DelayFields) :
              LET n == PyInt(Some(strip(Get(num_reviews))))
                  rs == PyInt(Some(strip(Get(rating_strategy))))
                  d == PyInt(Some(strip(Get(delay))))
                  f == PyInt(Some(strip(Get(fixed_rating))))
                  strategy == IF ~rs.ok \/ rs.val < 1 \/ rs.val > 3 THEN 3 ELSE rs.val
                  fixed == IF strategy = 1
                           THEN (IF f.ok /\ ~(f.val < 1 \/ f.val > 5)
                                 THEN Some(f.val) ELSE Some(5))
                           ELSE None
              IN IF ~n.ok \/ n.val <= 0 \/ ~d.ok \/ d.val < 0
                 THEN /\ req' = Request("post_batch_reviews", "rejected",
                                        num_reviews, delay, None)
                      /\ batch' = IdleBatch
                      /\ UNCHANGED configFile
                 ELSE /\ req' = Request("post_batch_reviews", "started",
                                        num_reviews, delay, None)
                      /\ BatchBegin("post_batch_reviews", TRUE, n.val, strategy, fixed)
    /\ UNCHANGED <<chrome, procs, accountsFile, populated, directUrlFile, businessUrlFile,
                   taskFiles, now, lastReview, last>>

\* test_batch_reviews.main
test_batch_reviews_main ==
    /\ Quiescent
    /\ task' = IdleTask
    /\ IF ~BatchFilesPresent
       THEN /\ req' = Request("test_batch_reviews", "precheck", None, None, None)
            /\ batch' = IdleBatch
            /\ UNCHANGED configFile
       ELSE \E num_reviews \in Typed(NumReviewsFields), delay \in Typed(DelayFields) :
              LET n == PyInt(Some(strip(Get(num_reviews))))
                  d == PyInt(Some(strip(Get(delay))))
              IN IF ~n.ok \/ n.val <= 0 \/ ~d.ok \/ d.val < 0
                 THEN /\ req' = Request("test_batch_reviews", "rejected",
                                        num_reviews, delay, None)
                      /\ batch' = IdleBatch
                      /\ UNCHANGED configFile
                 ELSE /\ req' = Request("test_batch_reviews", "started",
                                        num_reviews, delay, None)
                      /\ BatchBegin("test_batch_reviews", TRUE, n.val, 3, None)
    /\ UNCHANGED <<chrome, procs, accountsFile, populated, directUrlFile, businessUrlFile,
                   taskFiles, now, lastReview, last>>

\* review_menu.post_single_review
post_single_review ==
    /\ Quiescent
    /\ task' = IdleTask
    /\ batch' = IdleBatch
    /\ IF ~((businessUrlFile.exists \/ directUrlFile.exists) /\ accountsFile.exists)
       THEN /\ req' = Request("post_single_review", "precheck", None, None, None)
            /\ UNCHANGED <<populated, lastReview>>
       ELSE \E rating \in Typed(RatingFields), text \in ReviewTexts :
              LET stripped == Some(strip(Get(rating)))
                  review_text == IF strip(text) = <<>> THEN None ELSE Some(strip(text))
              IN IF ~RatingAccepted(stripped)
                 THEN /\ req' = Request("post_single_review", "rejected", None, None, rating)
                      /\ UNCHANGED <<populated, lastReview>>
                 ELSE \E o \in RequestOutcomes :
                        /\ req' = Request("post_single_review", "started", None, None, rating)
                        /\ lastReview' = ReviewCall("post_single_review", None,
                                            Some(PyInt(stripped).val), review_text, o)
                        /\ populated' = populated \cup Launched(None, o)
    /\ UNCHANGED <<chrome, procs, configFile, accountsFile, directUrlFile, businessUrlFile,
                   taskFiles, now, last>>

(* ------------------- the review pipeline: Spec ------------------------- *)
\* the profile import_accounts_to_profiles creates for the i-th seeded account
SeedLocal(i) == Repeat(<<"a">>, i)

SeedAccount(i) == Account(SeedLocal(i) \o <<"@", "x">>, <<"s">>)

SeedProfile(i) ==
    Profile(<<"profile_">> \o SeedLocal(i),
            DefaultProfilePath(<<"profile_">> \o SeedLocal(i)),
            SeedLocal(i) \o <<"@", "x">>)

StoredConfigs ==
    {MissingConfig}
    \cup { [exists |-> TRUE, profiles |-> [i \in 1..k |-> SeedProfile(i)],
            randomize_order |-> r] : k \in 0..MaxProfiles, r \in BOOLEAN }

SeedAccounts == [exists |-> TRUE, fmt |-> "list", accts |-> <<SeedAccount(1)>>]

\* accounts.yaml, direct_review_url.txt and business_url.txt before a request
StoredInputs ==
    { <<MissingAccounts, MissingText, MissingText>>,
      <<SeedAccounts, TextFile(<<"d">>), MissingText>>,
      <<SeedAccounts, MissingText, TextFile(<<"b">>)>> }

NoOperation == [op |-> "none", arg |-> <<>>, ret |-> ""]

\* no browser has been started by initialize_profile
NoChrome == [pc |-> "idle", profile |-> <<>>, session |-> <<>>, url |-> "",
             account |-> <<>>, ret |-> ""]

\* no process is in the middle of rewriting a file
NoProcs == <<>>

Init ==
    /\ configFile \in StoredConfigs
    /\ \E stored \in StoredInputs :
         /\ accountsFile = stored[1]
         /\ directUrlFile = stored[2]
         /\ businessUrlFile = stored[3]
    /\ populated \in SUBSET { configFile.profiles[i].path : i \in 1..Len(configFile.profiles) }
    /\ taskFiles = [id \in TaskIds |-> MissingTask]
    /\ now = 0
    /\ req = NoRequest
    /\ task = IdleTask
    /\ batch = IdleBatch
    /\ lastReview = NoReview
    /\ last = NoOperation
    /\ chrome = NoChrome
    /\ procs = NoProcs

Next ==
    \/ post_review_route
    \/ batch_reviews
    \/ post_batch_reviews
    \/ test_batch_reviews_main
    \/ post_single_review
    \/ TaskStart
    \/ TaskCall
    \/ TaskCalled
    \/ TaskFinish
    \/ BatchPrompt
    \/ BatchReview
    \/ BatchReturn

Spec == Init /\ [][Next]_vars

(* --------------------- post_review alone: SpecReview ------------------- *)
\* a call post_review(profile, rating, review_text) from any caller, under
\* every combination of step outcomes
PostReviewCall ==
    /\ ~lastReview.called
    /\ \E profile \in {None, Some(SeedProfile(1))},
          rating \in {None} \cup { Some(r) : r \in 1..5 },
          review_text \in {None, Some(<<"g">>)},
          o \in Outcomes :
         /\ lastReview' = ReviewCall("direct", profile, rating, review_text, o)
         /\ populated' = populated \cup Launched(profile, o)
    /\ UNCHANGED <<chrome, procs, configFile, accountsFile, directUrlFile, businessUrlFile,
                   taskFiles, now, req, task, batch, last>>

InitReview ==
    /\ configFile = [exists |-> TRUE, profiles |-> <<SeedProfile(1)>>,
                     randomize_order |-> TRUE]
    /\ accountsFile = SeedAccounts
    /\ populated = {}
    /\ directUrlFile \in {MissingText, TextFile(<<" ">>), TextFile(<<"d">>)}
    /\ businessUrlFile \in {MissingText, TextFile(<<>>), TextFile(<<"b">>)}
    /\ taskFiles = [id \in TaskIds |-> MissingTask]
    /\ now = 0
    /\ req = NoRequest
    /\ task = IdleTask
    /\ batch = IdleBatch
    /\ lastReview = NoReview
    /\ last = NoOperation
    /\ chrome = NoChrome
    /\ procs = NoProcs

NextReview == PostReviewCall

SpecReview == InitReview /\ [][NextReview]_vars


(* ------------------- the stores: chrome_profiles.yaml ------------------ *)
Usernames == {<<"a", "@", "x">>, <<"a", "@", "y">>, <<"b", "@", "x">>}

ProfileNames == {<<"profile_", "a">>, <<"profile_", "b">>}

Passwords == {<<"s">>}

HasName(profiles, name) == \E i \in 1..Len(profiles) : profiles[i].name = name

\* seq.pop(i) of the first position that holds the name
RemoveAt(seq, i) == SubSeq(seq, 1, i - 1) \o SubSeq(seq, i + 1, Len(seq))

\* the name check is missing
add_profile_NoNameCheck(file, name, path, account) ==
    LET config == load_config(file)
    IN [config |-> [config EXCEPT !.profiles = Append(@, Profile(name, path, account))],
        ret |-> TRUE]

\* add_profile(name, path, account) on the file as it is on disk: the file
\* after the call and the value returned
add_profile(file, name, path, account) ==
    LET config == load_config(file)
    IN IF HasName(config.profiles, name)
       THEN [config |-> config, ret |-> FALSE]
       ELSE [config |-> [config EXCEPT
                            !.profiles = Append(@, Profile(name, path, account))],
             ret |-> TRUE]

\* remove_profile(name)
remove_profile(file, name) ==
    LET config == load_config(file)
    IN IF HasName(config.profiles, name)
       THEN LET i == CHOOSE k \in 1..Len(config.profiles) :
                       /\ config.profiles[k].name = name
                       /\ \A j \in 1..(k - 1) : config.profiles[j].name # name
            IN [config |-> [config EXCEPT !.profiles = RemoveAt(@, i)], ret |-> TRUE]
       ELSE [config |-> config, ret |-> FALSE]

\* the loop "Create a profile for each account" of import_accounts_to_profiles
RECURSIVE ImportLoop(_, _, _)
ImportLoop(accounts, file, success_count) ==
    IF accounts = <<>> THEN [config |-> file, success_count |-> success_count]
    ELSE LET username == Head(accounts).username
             profile_name == <<"profile_">> \o SplitHead(username, "@")
             added == add_profile(file, profile_name,
                                  DefaultProfilePath(profile_name), username)
         IN IF username = <<>>
            THEN ImportLoop(Tail(accounts), file, success_count)
            ELSE ImportLoop(Tail(accounts), added.config,
                            IF added.ret THEN success_count + 1 ELSE success_count)

\* import_accounts_to_profiles(): a file that holds {"accounts": [...]} is
\* iterated by its keys, and account.get raises on the first of them
import_accounts_to_profiles(file, accounts) ==
    IF ~accounts.exists THEN [config |-> file, ret |-> FALSE]
    ELSE IF accounts.fmt = "dict" THEN [config |-> file, ret |-> FALSE]
    ELSE IF accounts.accts = <<>> THEN [config |-> file, ret |-> FALSE]
    ELSE LET done == ImportLoop(accounts.accts, file, 0)
         IN [config |-> done.config, ret |-> done.success_count > 0]

Operation(op, arg, ret) == [op |-> op, arg |-> arg, ret |-> ret]

StoreFrame == <<chrome, procs, populated, directUrlFile, businessUrlFile, taskFiles, now, req,
                task, batch, lastReview>>

\* a call add_profile(name, path, account), as the profile menu makes it
AddProfile ==
    /\ \E name \in ProfileNames, account \in Usernames :
         LET r == add_profile(configFile, name, DefaultProfilePath(name), account)
         IN /\ Len(r.config.profiles) <= MaxProfiles
            /\ configFile' = r.config
            /\ last' = Operation("add_profile", name, StrBool(r.ret))
    /\ UNCHANGED accountsFile
    /\ UNCHANGED StoreFrame

\* a call remove_profile(name)
RemoveProfile ==
    /\ \E name \in ProfileNames :
         LET r == remove_profile(configFile, name)
         IN /\ configFile' = r.config
            /\ last' = Operation("remove_profile", name, StrBool(r.ret))
    /\ UNCHANGED accountsFile
    /\ UNCHANGED StoreFrame

\* import_accounts_to_profiles(), from the profile menu or the dashboard
ImportAccounts ==
    /\ LET r == import_accounts_to_profiles(configFile, accountsFile)
       IN /\ configFile' = r.config
          /\ last' = Operation("import_accounts_to_profiles", <<>>, StrBool(r.ret))
    /\ UNCHANGED accountsFile
    /\ UNCHANGED StoreFrame

(* ---------------------- the stores: accounts.yaml ---------------------- *)
HasUsername(accts, username) == \E i \in 1..Len(accts) : accts[i].username = username

ListFile(accts) == [exists |-> TRUE, fmt |-> "list", accts |-> accts]

DictFile(accts) == [exists |-> TRUE, fmt |-> "dict", accts |-> accts]

UsernameInputs == Usernames \cup {<<>>, <<" ", "a", "@", "x">>}

\* the account edit_accounts writes when accounts.yaml is missing
PlaceholderAccount == Account(<<"your_email", "@", "gmail.com">>, <<"your_password">>)

\* app.manage_accounts, action 'add': the file after the request and the
\* message flashed. A file that holds {"accounts": [...]} makes account.get
\* raise, and the request ends in an error page.
web_add_account(file, username, password) ==
    IF username = <<>> \/ password = <<>> THEN [file |-> file, ret |-> "empty"]
    ELSE IF file.exists /\ file.fmt = "dict" THEN [file |-> file, ret |-> "error"]
    ELSE IF HasUsername(file.accts, username) THEN [file |-> file, ret |-> "already exists"]
    ELSE [file |-> ListFile(Append(file.accts, Account(username, password))),
          ret |-> "added successfully"]

\* review_menu.manage_accounts, choice 1: the listing of a file that holds
\* {"accounts": [...]} raises before the menu is shown
menu_add_account(file, username, password) ==
    IF file.exists /\ file.fmt = "dict" THEN [file |-> file, ret |-> "error"]
    ELSE IF username = <<>> \/ password = <<>> THEN [file |-> file, ret |-> "empty"]
    ELSE IF HasUsername(file.accts, username) THEN [file |-> file, ret |-> "already exists"]
    ELSE [file |-> ListFile(Append(file.accts, Account(username, password))),
          ret |-> "added successfully"]

\* the accounts edit_accounts works on: a missing file is first created with
\* the placeholder account; a file that holds a plain list makes data.get
\* raise, and the list is taken to be empty
edit_accounts_load(file) ==
    IF ~file.exists THEN <<PlaceholderAccount>>
    ELSE IF file.fmt = "dict" THEN file.accts
    ELSE <<>>

\* review_menu.edit_accounts, choice 1
edit_accounts_add(file, username, password) ==
    LET accounts == edit_accounts_load(file)
        created == IF file.exists THEN file ELSE DictFile(<<PlaceholderAccount>>)
    IN IF username = <<>> \/ password = <<>> THEN [file |-> created, ret |-> "empty"]
       ELSE [file |-> DictFile(Append(accounts, Account(username, password))),
             ret |-> "added successfully"]

\* review_menu.edit_accounts, choice 2 with a valid account number
edit_accounts_edit(file, account_index, username, password) ==
    LET accounts == edit_accounts_load(file)
        renamed == IF username # <<>>
                   THEN [accounts EXCEPT ![account_index].username = username]
                   ELSE accounts
        edited == IF password # <<>>
                  THEN [renamed EXCEPT ![account_index].password = password]
                  ELSE renamed
    IN [file |-> DictFile(edited), ret |-> "updated successfully"]

\* deleting the account at a valid position, by any of the three front ends
DeleteAccount ==
    /\ accountsFile.exists
    /\ \E front \in {"app.manage_accounts", "review_menu.manage_accounts",
                     "review_menu.edit_accounts"},
          i \in 1..Len(accountsFile.accts) :
         /\ (front = "review_menu.edit_accounts") = (accountsFile.fmt = "dict")
         /\ accountsFile' = [accountsFile EXCEPT !.accts = RemoveAt(@, i)]
         /\ last' = Operation(front, accountsFile.accts[i].username, "removed")
    /\ UNCHANGED configFile
    /\ UNCHANGED StoreFrame

\* POST /manage_accounts with action 'add'
WebAddAccount ==
    /\ Len(accountsFile.accts) < MaxAccounts
    /\ \E username \in UsernameInputs, password \in Passwords \cup {<<>>} :
         LET r == web_add_account(accountsFile, strip(username), strip(password))
         IN /\ accountsFile' = r.file
            /\ last' = Operation("app.manage_accounts", strip(username), r.ret)
    /\ UNCHANGED configFile
    /\ UNCHANGED StoreFrame

\* the terminal menu "Manage Google Accounts", choice 1
MenuAddAccount ==
    /\ Len(accountsFile.accts) < MaxAccounts
    /\ \E username \in UsernameInputs, password \in Passwords \cup {<<>>} :
         LET r == menu_add_account(accountsFile, strip(username), strip(password))
         IN /\ accountsFile' = r.file
            /\ last' = Operation("review_menu.manage_accounts", strip(username), r.ret)
    /\ UNCHANGED configFile
    /\ UNCHANGED StoreFrame

\* review_menu.edit_accounts, choice 1
EditAccountsAdd ==
    /\ Len(accountsFile.accts) < MaxAccounts
    /\ \E username \in UsernameInputs, password \in Passwords \cup {<<>>} :
         LET r == edit_accounts_add(accountsFile, strip(username), strip(password))
         IN /\ accountsFile' = r.file
            /\ last' = Operation("review_menu.edit_accounts", strip(username), r.ret)
    /\ UNCHANGED configFile
    /\ UNCHANGED StoreFrame

\* review_menu.edit_accounts, choice 2
EditAccountsEdit ==
    /\ edit_accounts_load(accountsFile) # <<>>
    /\ \E i \in 1..Len(edit_accounts_load(accountsFile)),
          username \in UsernameInputs, password \in Passwords \cup {<<>>} :
         LET r == edit_accounts_edit(accountsFile, i, strip(username), strip(password))
         IN /\ accountsFile' = r.file
            /\ last' = Operation("review_menu.edit_accounts", strip(username), r.ret)
    /\ UNCHANGED configFile
    /\ UNCHANGED StoreFrame

InitStore ==
    /\ configFile = MissingConfig
    /\ accountsFile = MissingAccounts
    /\ populated = {}
    /\ directUrlFile = MissingText
    /\ businessUrlFile = MissingText
    /\ taskFiles = [id \in TaskIds |-> MissingTask]
    /\ now = 0
    /\ req = NoRequest
    /\ task = IdleTask
    /\ batch = IdleBatch
    /\ lastReview = NoReview
    /\ last = NoOperation
    /\ chrome = NoChrome
    /\ procs = NoProcs

NextStore ==
    \/ AddProfile
    \/ RemoveProfile
    \/ ImportAccounts
    \/ WebAddAccount
    \/ MenuAddAccount
    \/ EditAccountsAdd
    \/ EditAccountsEdit
    \/ DeleteAccount

SpecStore == InitStore /\ [][NextStore]_vars

(* ------------------- initialize_profile: SpecLogin --------------------- *)
\* simple_review.load_accounts(): the list of a file of either format, and
\* [] when the file is missing
load_accounts(file) == IF file.exists THEN file.accts ELSE <<>>

\* the password Google holds for an account
GooglePassword(username) == <<"s">>

\* the pages driver.current_url can name after driver.get of
\* https://accounts.google.com/: the account page when the browser holds a
\* session, and otherwise a sign-in page, whose address Google chooses
AccountPages(session) ==
    IF IsNone(session) THEN {"accounts.google.com/signin/v2/identifier",
                             "accounts.google.com/v3/signin/identifier"}
    ELSE {"myaccount.google.com"}

\* the account login_to_google uses for account_email: None when it returns
\* False before it looks at the browser
LoginAccount(accounts, account_email) ==
    IF accounts = <<>> THEN None
    ELSE IF account_email # <<>>
         THEN IF HasUsername(accounts, account_email)
              THEN Some(accounts[CHOOSE i \in 1..Len(accounts) :
                           /\ accounts[i].username = account_email
                           /\ \A j \in 1..(i - 1) :
                                 accounts[j].username # account_email])
              ELSE None
         ELSE Some(accounts[1])

\* the test "Check if we're on the account page (already logged in)"
AlreadyLoggedIn(url) ==
    \/ url = "myaccount.google.com"
    \/ url # "accounts.google.com/signin/v2/identifier"

\* the session of the browser after an e-mail and a password were submitted:
\* Google opens one for the account when the password is right
Submitted(session, account) ==
    IF account.password = GooglePassword(account.username)
    THEN Some(account.username) ELSE session

ChromeReturns(ret) == [chrome EXCEPT !.pc = "done", !.ret = ret]

LoginFrame == <<configFile, accountsFile, populated, directUrlFile, businessUrlFile,
                taskFiles, now, req, task, batch, lastReview, last, procs>>

\* initialize_profile(profile) up to the call of login_to_google
InitializeProfile ==
    /\ chrome.pc = "idle"
    /\ \E i \in 1..Len(configFile.profiles), started \in BOOLEAN :
         LET profile == configFile.profiles[i]
         IN chrome' = IF started
                      THEN [chrome EXCEPT !.pc = "login", !.profile = Some(profile)]
                      ELSE [chrome EXCEPT !.pc = "done", !.profile = Some(profile),
                                          !.ret = "False"]
    /\ UNCHANGED LoginFrame

\* login_to_google(driver, debug_folder, profile['account']) up to the first
\* screenshot: the account is looked up and the account page is requested
LoginLookup ==
    /\ chrome.pc = "login"
    /\ LET account == LoginAccount(load_accounts(accountsFile),
                                   Get(chrome.profile).account)
       IN IF IsNone(account) THEN chrome' = ChromeReturns("False")
          ELSE \/ \E url \in AccountPages(chrome.session) :
                    chrome' = [chrome EXCEPT !.pc = "check", !.account = account,
                                             !.url = url]
               \/ chrome' = ChromeReturns("False")
    /\ UNCHANGED LoginFrame

\* "Check if we're already logged in"
LoginCheck ==
    /\ chrome.pc = "check"
    /\ chrome' = [chrome EXCEPT !.pc = IF AlreadyLoggedIn(chrome.url)
                                       THEN "logged_in" ELSE "form"]
    /\ UNCHANGED LoginFrame

\* the e-mail and the password are typed and sent; a missing element raises
\* and leads to the direct approach
LoginForm ==
    /\ chrome.pc = "form"
    /\ \/ chrome' = [chrome EXCEPT !.pc = "logged_in",
                                   !.session = Submitted(@, Get(chrome.account)),
                                   !.url = "after_login"]
       \/ chrome' = [chrome EXCEPT !.pc = "direct"]
    /\ UNCHANGED LoginFrame

\* "Try a more direct login approach"
DirectLogin ==
    /\ chrome.pc = "direct"
    /\ \/ chrome' = [chrome EXCEPT !.pc = "logged_in",
                                   !.session = Submitted(@, Get(chrome.account)),
                                   !.url = "after_direct_login"]
       \/ chrome' = ChromeReturns("False")
    /\ UNCHANGED LoginFrame

\* initialize_profile after login_to_google returned True: the homepage, the
\* screenshot, driver.quit()
InitializeFinish ==
    /\ chrome.pc = "logged_in"
    /\ \/ chrome' = ChromeReturns("True")
       \/ chrome' = ChromeReturns("False")
    /\ UNCHANGED LoginFrame

LoginProfiles ==
    { Profile(<<"profile_", "a">>, DefaultProfilePath(<<"profile_", "a">>), account) :
        account \in Usernames \cup {<<>>} }

LoginAccounts ==
    {MissingAccounts,
     ListFile(<<Account(<<"a", "@", "x">>, <<"s">>)>>),
     ListFile(<<Account(<<"a", "@", "x">>, <<"w">>), Account(<<"b", "@", "x">>, <<"s">>)>>),
     DictFile(<<Account(<<"a", "@", "y">>, <<"s">>)>>)}

InitLogin ==
    /\ \E profile \in LoginProfiles :
         configFile = [exists |-> TRUE, profiles |-> <<profile>>,
                       randomize_order |-> TRUE]
    /\ accountsFile \in LoginAccounts
    /\ populated = {}
    /\ directUrlFile = MissingText
    /\ businessUrlFile = MissingText
    /\ taskFiles = [id \in TaskIds |-> MissingTask]
    /\ now = 0
    /\ req = NoRequest
    /\ task = IdleTask
    /\ batch = IdleBatch
    /\ lastReview = NoReview
    /\ last = NoOperation
    /\ \E session \in {None} \cup { Some(u) : u \in Usernames } :
         chrome = [NoChrome EXCEPT !.session = session]
    /\ procs = NoProcs

NextLogin ==
    \/ InitializeProfile
    \/ LoginLookup
    \/ LoginCheck
    \/ LoginForm
    \/ DirectLogin
    \/ InitializeFinish

SpecLogin == InitLogin /\ [][NextLogin]_vars


(* ----------------- place IDs and review URLs: SpecUrl ------------------ *)
\* A URL is a sequence of characters. These are the pieces the typed URLs are
\* made of.
PlaceIdEq == <<"p", "l", "a", "c", "e", "_", "i", "d", "=">>

PlaceidEq == <<"p", "l", "a", "c", "e", "i", "d", "=">>

Bang1s == <<"!", "1", "s">>

DataHead == <<"d", "a", "t", "a", "=", "!", "3", "m", "1", "!", "4", "b", "1", "!", "4", "m">>

Data5 == DataHead \o <<"5", "!", "3", "m", "4">>

Data16 == DataHead \o <<"1", "6", "!", "3", "m", "7">>

MapsHost == <<"g", "o", "o", "g", "l", "e", ".", "c", "o", "m", "/", "m", "a", "p", "s", "/">>

CidPair == <<"0", "x", "a", ":", "0", "x", "a">>

UrlPieces ==
    {PlaceIdEq, PlaceidEq \o <<"g">>, <<"&">>, CidPair, <<"0", "x", "a">>, <<":">>, <<"g">>,
     <<" ">>, Data5 \o Bang1s, Data16 \o Bang1s, MapsHost}

\* the texts made of at most n pieces
RECURSIVE UrlsOf(_)
UrlsOf(n) ==
    IF n = 0 THEN {<<>>}
    ELSE LET shorter == UrlsOf(n - 1)
         IN shorter \cup { u \o p : u \in shorter, p \in UrlPieces }

UrlInputs == UrlsOf(MaxUrlParts)

\* character classes of the patterns
HexDigits == {"0", "1", "2", "3", "4", "5", "6", "7", "8", "9",
              "a", "b", "c", "d", "e", "f", "A", "B", "C", "D", "E", "F"}

DecDigits == {"0", "1", "2", "3", "4", "5", "6", "7", "8", "9"}

InClass(cls, c) ==
    CASE cls = "[0-9a-fA-F]" -> c \in HexDigits
      [] cls = "[0-9]" -> c \in DecDigits
      [] cls = "[^&]" -> c # "&"
      [] cls = "[^!]" -> c # "!"
      [] OTHER -> c = cls

\* a pattern is a sequence of items: one character, or a class repeated (+)
Lit(text) == [i \in 1..Len(text) |-> [cls |-> text[i], plus |-> FALSE]]

Plus(cls) == <<[cls |-> cls, plus |-> TRUE]>>

\* a pattern and the item its group starts at (1: the whole match)
Pattern(items, group) == [items |-> items, group |-> group]

\* the number of characters of text from pos on that are in the class
RECURSIVE RunLength(_, _, _)
RunLength(text, pos, cls) ==
    IF pos <= Len(text) /\ InClass(cls, text[pos])
    THEN 1 + RunLength(text, pos + 1, cls) ELSE 0

\* re's match of the items k.. of a pattern at position pos: <<>> when there
\* is none, else <<position after the match, position the group starts at>>;
\* a repeated class takes as many characters as the rest of the pattern allows
RECURSIVE MatchFrom(_, _, _, _)
RECURSIVE TryRuns(_, _, _, _, _)
MatchFrom(pat, k, text, pos) ==
    IF k > Len(pat.items) THEN <<pos, pos>>
    ELSE LET item == pat.items[k]
             rest == IF item.plus
                     THEN TryRuns(pat, k, text, pos, RunLength(text, pos, item.cls))
                     ELSE IF pos <= Len(text) /\ InClass(item.cls, text[pos])
                          THEN MatchFrom(pat, k + 1, text, pos + 1)
                          ELSE <<>>
         IN IF rest = <<>> THEN <<>>
            ELSE IF k = pat.group THEN <<rest[1], pos>> ELSE rest

TryRuns(pat, k, text, pos, n) ==
    IF n < 1 THEN <<>>
    ELSE LET rest == MatchFrom(pat, k + 1, text, pos + n)
         IN IF rest # <<>> THEN rest ELSE TryRuns(pat, k, text, pos, n - 1)

\* re.search(pattern, text): the leftmost match, None when there is none;
\* the value is the text of the group
RECURSIVE SearchFrom(_, _, _)
SearchFrom(pat, text, start) ==
    IF start > Len(text) THEN None
    ELSE LET m == MatchFrom(pat, 1, text, start)
         IN IF m # <<>> THEN Some(SubSeq(text, m[2], m[1] - 1))
            ELSE SearchFrom(pat, text, start + 1)

re_search(pat, text) == SearchFrom(pat, text, 1)

\* r'place_id=([^&]+)' and r'placeid=([^&]+)'
place_id_patterns ==
    <<Pattern(Lit(PlaceIdEq) \o Plus("[^&]"), Len(PlaceIdEq) + 1),
      Pattern(Lit(PlaceidEq) \o Plus("[^&]"), Len(PlaceidEq) + 1)>>

CidItems == Lit(<<"0", "x">>) \o Plus("[0-9a-fA-F]") \o Lit(<<":", "0", "x">>)
            \o Plus("[0-9a-fA-F]")

\* r'(0x[0-9a-fA-F]+:0x[0-9a-fA-F]+)'
cid_pattern == Pattern(CidItems, 1)

\* r'data=!3m1!4b1!4m5!3m4!1s([^!]+)' and
\* r'data=!3m1!4b1!4m[0-9]+!3m[0-9]+!1s([^!]+)'
data_patterns ==
    <<Pattern(Lit(Data5 \o Bang1s) \o Plus("[^!]"), Len(Data5) + Len(Bang1s) + 1),
      Pattern(Lit(DataHead) \o Plus("[0-9]") \o Lit(<<"!", "3", "m">>) \o Plus("[0-9]")
              \o Lit(Bang1s) \o Plus("[^!]"),
              Len(DataHead) + 1 + 3 + 1 + Len(Bang1s) + 1)>>

\* r'!1s(0x[0-9a-fA-F]+:0x[0-9a-fA-F]+)'
PathCidPattern == Pattern(Lit(Bang1s) \o CidItems, Len(Bang1s) + 1)

\* the first pattern of a list that matches, as "for pattern in ...: match =
\* re.search(pattern, url); if match: return match.group(1)"
RECURSIVE FirstMatch(_, _)
FirstMatch(patterns, text) ==
    IF patterns = <<>> THEN None
    ELSE LET m == re_search(Head(patterns), text)
         IN IF ~IsNone(m) THEN m ELSE FirstMatch(Tail(patterns), text)

\* x in text, for two texts
RECURSIVE Find(_, _, _)
Find(x, text, start) ==
    IF start + Len(x) - 1 > Len(text) THEN 0
    ELSE IF SubSeq(text, start, start + Len(x) - 1) = x THEN start
    ELSE Find(x, text, start + 1)

Letters ==
    {"a", "b", "c", "d", "e", "f", "g", "h", "i", "j", "k", "l", "m", "n", "o", "p",
     "q", "r", "s", "t", "u", "v", "w", "x", "y", "z", "A", "B", "C", "D", "E", "F"}

SchemeChars == Letters \cup DecDigits \cup {"+", "-", "."}

\* urllib.parse.urlparse(url) for a text without '//', '#' and ';': the
\* scheme is split off at the first ':', the query at the first '?'
urlparse(url) ==
    LET colon == Find(<<":">>, url, 1)
        scheme == colon > 1 /\ url[1] \in Letters
                  /\ \A i \in 1..(colon - 1) : url[i] \in SchemeChars
        rest == IF scheme THEN SubSeq(url, colon + 1, Len(url)) ELSE url
        mark == Find(<<"?">>, rest, 1)
    IN [netloc |-> <<>>,
        path |-> IF mark = 0 THEN rest ELSE SubSeq(rest, 1, mark - 1),
        query |-> IF mark = 0 THEN <<>> ELSE SubSeq(rest, mark + 1, Len(rest))]

\* "Direct extraction from URL path for specific format"
PathExtraction(url) ==
    LET parsed_url == urlparse(url)
        path_and_query == parsed_url.path \o <<"?">> \o parsed_url.query
    IN IF Find(SubSeq(MapsHost, 1, Len(MapsHost) - 1),
               parsed_url.netloc \o parsed_url.path, 1) # 0
       THEN re_search(PathCidPattern, path_and_query)
       ELSE None

\* the pair is looked for before the parameters
extract_place_id_from_url_CidFirst(url) ==
    LET param == FirstMatch(place_id_patterns, url)
        cid == re_search(cid_pattern, url)
        data == FirstMatch(data_patterns, url)
    IN IF ~IsNone(cid) THEN cid
       ELSE IF ~IsNone(param) THEN param
       ELSE IF ~IsNone(data) THEN data
       ELSE PathExtraction(url)

\* app.extract_place_id_from_url(url)
extract_place_id_from_url(url) ==
    LET param == FirstMatch(place_id_patterns, url)
        cid == re_search(cid_pattern, url)
        data == FirstMatch(data_patterns, url)
    IN IF ~IsNone(param) THEN param
       ELSE IF ~IsNone(cid) THEN cid
       ELSE IF ~IsNone(data) THEN data
       ELSE PathExtraction(url)

\* review_menu.extract_place_id_from_url(url)
menu_extract_place_id_from_url(url) ==
    LET param == FirstMatch(place_id_patterns, url)
        cid == re_search(cid_pattern, url)
        data == FirstMatch(data_patterns, url)
    IN IF ~IsNone(param) THEN param
       ELSE IF ~IsNone(cid) THEN cid
       ELSE IF ~IsNone(data) THEN data
       ELSE PathExtraction(url)

\* test_place_id.extract_place_id_from_url(url)
test_extract_place_id_from_url(url) ==
    LET param == FirstMatch(place_id_patterns, url)
        cid == re_search(cid_pattern, url)
        data == FirstMatch(data_patterns, url)
    IN IF ~IsNone(param) THEN param
       ELSE IF ~IsNone(cid) THEN cid
       ELSE IF ~IsNone(data) THEN data
       ELSE PathExtraction(url)

\* str.strip() of a text of characters
RECURSIVE lstrip_chars(_)
lstrip_chars(text) ==
    IF text # <<>> /\ Head(text) = " " THEN lstrip_chars(Tail(text)) ELSE text

RECURSIVE rstrip_chars(_)
rstrip_chars(text) ==
    IF text # <<>> /\ text[Len(text)] = " "
    THEN rstrip_chars(SubSeq(text, 1, Len(text) - 1)) ELSE text

strip_chars(text) == rstrip_chars(lstrip_chars(text))

\* what get_place_id_from_api can answer: the Places API is not part of the
\* program, so a call finds nothing or finds a place ID
ApiAnswers == {None, Some(<<"C", "h">>)}

\* f"https://search.google.com/local/writereview?placeid={place_id}"
get_direct_review_url(place_id) ==
    <<"https://search.google.com/local/writereview?placeid=">> \o place_id

UrlFiles(direct, business) == [direct |-> direct, business |-> business]

\* "Generate direct review URL if place ID was found": the two files after
\* the request and what was answered
SaveReviewUrl_BusinessFirst(business_url, place_id, direct, business) ==
    IF ~IsNone(place_id)
    THEN [files |-> UrlFiles(TextFile(get_direct_review_url(Get(place_id))),
                             TextFile(business_url)),
          place_id |-> place_id, business_url |-> business_url, ret |-> "success"]
    ELSE [files |-> UrlFiles(direct, TextFile(business_url)),
          place_id |-> place_id, business_url |-> business_url, ret |-> "danger"]

SaveReviewUrl(business_url, place_id, direct, business) ==
    IF ~IsNone(place_id)
    THEN [files |-> UrlFiles(TextFile(get_direct_review_url(Get(place_id))),
                             TextFile(business_url)),
          place_id |-> place_id, business_url |-> business_url, ret |-> "success"]
    ELSE [files |-> UrlFiles(direct, business),
          place_id |-> place_id, business_url |-> business_url, ret |-> "danger"]

\* app.generate_review_url() for the submitted form field, the answer of the
\* Places API and the two files as they are
generate_review_url(form_url, api, direct, business) ==
    LET typed == strip_chars(form_url)
        business_url == IF typed # <<>> THEN typed
                        ELSE IF business.exists THEN strip_chars(business.text)
                        ELSE typed
        place_id == IF ~IsNone(api) THEN api
                    ELSE extract_place_id_from_url(business_url)
    IN IF business_url = <<>>
       THEN [files |-> UrlFiles(direct, business), place_id |-> None,
             business_url |-> business_url, ret |-> "danger"]
       ELSE SaveReviewUrl(business_url, place_id, direct, business)

\* review_menu.set_direct_review_url() for the line typed at the prompt
set_direct_review_url(typed_url, api, direct, business) ==
    LET business_url == strip_chars(typed_url)
        place_id == IF ~IsNone(api) THEN api
                    ELSE menu_extract_place_id_from_url(business_url)
    IN IF business_url = <<>>
       THEN [files |-> UrlFiles(direct, business), place_id |-> None,
             business_url |-> business_url, ret |-> "danger"]
       ELSE SaveReviewUrl(business_url, place_id, direct, business)

UrlRequest(url) == [front |-> "none", business_url |-> url]

UrlFrame == <<configFile, accountsFile, populated, taskFiles, now, req, task, batch,
              lastReview, chrome, procs>>

\* POST /generate_review_url with the URL in the form; a behaviour follows
\* one request from any stored state
GenerateReviewUrl ==
    /\ last.op = "none"
    /\ \E api \in ApiAnswers :
         LET r == generate_review_url(req.business_url, api, directUrlFile,
                                      businessUrlFile)
         IN /\ directUrlFile' = r.files.direct
            /\ businessUrlFile' = r.files.business
            /\ last' = Operation("generate_review_url",
                                 [business_url |-> r.business_url,
                                  place_id |-> r.place_id], r.ret)
    /\ UNCHANGED UrlFrame

\* the menu entry "Set direct review URL" with the URL typed
SetDirectReviewUrl ==
    /\ last.op = "none"
    /\ \E api \in ApiAnswers :
         LET r == set_direct_review_url(req.business_url, api, directUrlFile,
                                        businessUrlFile)
         IN /\ directUrlFile' = r.files.direct
            /\ businessUrlFile' = r.files.business
            /\ last' = Operation("set_direct_review_url",
                                 [business_url |-> r.business_url,
                                  place_id |-> r.place_id], r.ret)
    /\ UNCHANGED UrlFrame

\* the three copies of extract_place_id_from_url applied to the URL
ExtractPlaceId ==
    /\ last.op = "none"
    /\ last' = Operation("extract_place_id_from_url", req.business_url,
                         [app |-> extract_place_id_from_url(req.business_url),
                          menu |-> menu_extract_place_id_from_url(req.business_url),
                          test |-> test_extract_place_id_from_url(req.business_url)])
    /\ UNCHANGED <<directUrlFile, businessUrlFile>>
    /\ UNCHANGED UrlFrame

InitUrl ==
    /\ configFile = MissingConfig
    /\ accountsFile = MissingAccounts
    /\ populated = {}
    /\ directUrlFile \in {MissingText, TextFile(get_direct_review_url(<<"C", "h">>))}
    /\ businessUrlFile \in {MissingText, TextFile(<<" ">> \o PlaceidEq \o <<"g">>)}
    /\ taskFiles = [id \in TaskIds |-> MissingTask]
    /\ now = 0
    /\ \E url \in UrlInputs : req = UrlRequest(url)
    /\ task = IdleTask
    /\ batch = IdleBatch
    /\ lastReview = NoReview
    /\ last = NoOperation
    /\ chrome = NoChrome
    /\ procs = NoProcs

NextUrl ==
    \/ GenerateReviewUrl
    \/ SetDirectReviewUrl
    \/ ExtractPlaceId

SpecUrl == InitUrl /\ [][NextUrl]_vars

(* ---------------- the text of a review: SpecText ----------------------- *)
negative_reviews ==
    {"Very disappointed with the service.",
     "Would not recommend this place at all.",
     "Had a terrible experience here.",
     "Service was extremely poor.",
     "Will not be returning after this experience."}

poor_reviews ==
    {"Below average experience overall.",
     "Several issues with the service provided.",
     "Not what I expected for the price.",
     "Staff could be more helpful.",
     "Needs significant improvement."}

average_reviews ==
    {"Average experience, nothing special.",
     "Some good points but also some issues.",
     "Decent service but room for improvement.",
     "Met basic expectations but didn't exceed them.",
     "Okay for the price, but wouldn't go out of my way to return."}

good_reviews ==
    {"Good experience overall, would recommend.",
     "Very satisfied with the service provided.",
     "Professional staff and good quality.",
     "Above average experience, will return.",
     "Impressed with most aspects of the service."}

excellent_reviews ==
    {"Excellent service and friendly staff!",
     "Outstanding experience from start to finish!",
     "Couldn't be happier with my experience here.",
     "Absolutely top-notch service, highly recommend!",
     "Fantastic experience, will definitely return!",
     "Exceeded my expectations in every way.",
     "Wonderful staff and excellent service!",
     "Best experience I've had in a long time.",
     "Absolutely love this place, 5 stars well deserved!",
     "Perfect in every way, highly recommended!"}

StarWords == <<"One", "Two", "Three", "Four", "Five">>

\* The aria-label of the first element with aria-checked='true' that
\* enter_review_text can find once set_star_rating(rating) has returned True:
\* none (no element is marked, or the lookup raises), the label of the star
\* with the number as a digit, or with the number as a word. The page is
\* Google's; set_star_rating returns True without the mark being there.
CheckedLabels(rating) ==
    {None,
     Some(<<Numeral(rating), " star", "s">>),
     Some(<<StarWords[rating], " star", "s">>)}

\* "Try to determine the rating from the selected star"
detected_rating(label) ==
    IF IsNone(label) THEN 5
    ELSE IF Find(<<"1", " star">>, Get(label), 1) # 0 THEN 1
    ELSE IF Find(<<"2", " star">>, Get(label), 1) # 0 THEN 2
    ELSE IF Find(<<"3", " star">>, Get(label), 1) # 0 THEN 3
    ELSE IF Find(<<"4", " star">>, Get(label), 1) # 0 THEN 4
    ELSE IF Find(<<"5", " star">>, Get(label), 1) # 0 THEN 5
    ELSE 5

\* "Generate review text based on rating": the list random.choice draws from
GeneratedTexts(rating) ==
    CASE rating = 1 -> negative_reviews
      [] rating = 2 -> poor_reviews
      [] rating = 3 -> average_reviews
      [] rating = 4 -> good_reviews
      [] OTHER -> excellent_reviews

\* the texts enter_review_text(driver, debug_folder, review_text) can type
enter_review_text(review_text, label) ==
    IF IsNone(review_text) THEN GeneratedTexts(detected_rating(label))
    ELSE {Get(review_text)}

TextFrame == <<configFile, accountsFile, populated, directUrlFile, businessUrlFile,
               taskFiles, now, req, task, batch, last, chrome, procs>>

\* post_review(profile, rating, review_text) up to set_star_rating having
\* returned True, called with a rating from the menu or from the batch
SetStarRating ==
    /\ ~lastReview.called
    /\ \E caller \in {"post_single_review", "run_batch_reviews"},
          rating \in 1..5,
          review_text \in {None, Some("Nice place")} :
         /\ caller = "run_batch_reviews" => IsNone(review_text)
         /\ \E label \in CheckedLabels(rating) :
            lastReview' =
               [called |-> TRUE, caller |-> caller, profile |-> None,
                rating |-> Some(rating), review_text |-> review_text,
                steps |-> <<[step |-> "set_star_rating", outcome |-> "ok"]>>,
                result |-> FALSE, page |-> label, entered |-> None]
    /\ UNCHANGED TextFrame

\* enter_review_text chooses the text and types it
EnterReviewText ==
    /\ lastReview.called
    /\ IsNone(lastReview.entered)
    /\ \E text \in enter_review_text(lastReview.review_text, lastReview.page) :
         lastReview' =
            [lastReview EXCEPT
               !.steps = Append(@, [step |-> "enter_review_text", outcome |-> "ok"]),
               !.entered = Some(text)]
    /\ UNCHANGED TextFrame

InitText ==
    /\ configFile = MissingConfig
    /\ accountsFile = SeedAccounts
    /\ populated = {}
    /\ directUrlFile = TextFile(<<"d">>)
    /\ businessUrlFile = MissingText
    /\ taskFiles = [id \in TaskIds |-> MissingTask]
    /\ now = 0
    /\ req = NoRequest
    /\ task = IdleTask
    /\ batch = IdleBatch
    /\ lastReview = NoReview
    /\ last = NoOperation
    /\ chrome = NoChrome
    /\ procs = NoProcs

NextText ==
    \/ SetStarRating
    \/ EnterReviewText

SpecText == InitText /\ [][NextText]_vars

(* ------------- update_task_progress beside a task: SpecProgress -------- *)
\* the frame of a call update_task_progress(task_id, progress, None, message)
IdleProgress ==
    [pc |-> "idle", calls |-> 0, task_id |-> <<"batch", 0>>, progress |-> 0,
     message |-> None, task_status |-> MissingTask, ret |-> ""]

\* task_status after "task_status['progress'] = progress" and the message; the
\* messages are left out
ProgressUpdated(task_status, progress) == [task_status EXCEPT !.progress = progress]

ProgressFrame == <<configFile, accountsFile, populated, directUrlFile, businessUrlFile,
                   now, req, task, batch, lastReview, last, chrome>>

\* update_task_progress up to json.load(f): False when the file is missing
ProgressRead ==
    /\ procs.updater.pc = "idle"
    /\ procs.updater.calls < MaxUpdates
    /\ \E task_id \in TaskIds, progress \in {50}, message \in {None, Some("m")} :
         LET call == [procs.updater EXCEPT !.calls = @ + 1, !.task_id = task_id,
                         !.progress = progress, !.message = message]
         IN procs' = [procs EXCEPT !.updater =
                         IF taskFiles[task_id].exists
                         THEN [call EXCEPT !.pc = "loaded",
                                           !.task_status = taskFiles[task_id],
                                           !.ret = ""]
                         ELSE [call EXCEPT !.ret = "False"]]
    /\ UNCHANGED taskFiles
    /\ UNCHANGED ProgressFrame

\* json.dump(task_status, f) and return True
ProgressWrite ==
    /\ procs.updater.pc = "loaded"
    /\ taskFiles' = [taskFiles EXCEPT ![procs.updater.task_id] =
                        ProgressUpdated(procs.updater.task_status,
                                        procs.updater.progress)]
    /\ procs' = [procs EXCEPT !.updater.pc = "idle", !.updater.ret = "True"]
    /\ UNCHANGED ProgressFrame

\* the processes the two routes start, as post_review_route and
\* batch_reviews start them
StartedTasks ==
    {run_process_in_background(<<"review", 0>>, "post_review",
        {"profile", "rating", "review_text", "debug_folder"},
        [NoArgs EXCEPT !.rating = 5]),
     run_process_in_background(<<"batch", 0>>, "run_batch_reviews",
        {"num_reviews", "delay", "rating_strategy", "fixed_rating"},
        [NoArgs EXCEPT !.num_reviews = 1])}

InitProgress ==
    /\ configFile \in {[exists |-> TRUE, profiles |-> <<>>, randomize_order |-> TRUE],
                       [exists |-> TRUE, profiles |-> <<SeedProfile(1)>>,
                        randomize_order |-> TRUE]}
    /\ accountsFile = SeedAccounts
    /\ populated \in SUBSET { configFile.profiles[i].path :
                                i \in 1..Len(configFile.profiles) }
    /\ directUrlFile = TextFile(<<"d">>)
    /\ businessUrlFile = MissingText
    /\ taskFiles = [id \in TaskIds |-> MissingTask]
    /\ now = 0
    /\ req = NoRequest
    /\ task \in StartedTasks
    /\ batch = IdleBatch
    /\ lastReview = NoReview
    /\ last = NoOperation
    /\ chrome = NoChrome
    /\ procs = [updater |-> IdleProgress]

NextProgress ==
    \/ TaskStart
    \/ TaskCall
    \/ TaskCalled
    \/ TaskFinish
    \/ BatchPrompt
    \/ BatchReview
    \/ BatchReturn
    \/ ProgressRead
    \/ ProgressWrite

SpecProgress == InitProgress /\ [][NextProgress]_vars

(* -------- two writers of accounts.yaml and chrome_profiles.yaml: SpecRace *)
\* two requests of the dashboard (served by threads) or two processes
Writers == {1, 2}

\* the frame of a writer between its load and its save
IdleWriter == [pc |-> "idle", op |-> "none", arg |-> <<>>, copy |-> <<>>, ret |-> ""]

RaceFrame == <<populated, directUrlFile, businessUrlFile, taskFiles, now, req, task,
               batch, lastReview, last, chrome>>

\* app.load_accounts() for a file that holds a list
app_load_accounts(file) == IF file.exists THEN file.accts ELSE <<>>

\* manage_accounts, action 'add', up to accounts.append(...)
AddAccountLoad ==
    /\ \E w \in Writers, username \in Usernames, password \in Passwords :
         LET accounts == app_load_accounts(accountsFile)
         IN /\ procs[w].pc = "idle"
            /\ procs' = [procs EXCEPT ![w] =
                  IF HasUsername(accounts, username)
                  THEN [pc |-> "done", op |-> "add_account", arg |-> username,
                        copy |-> accounts, ret |-> "already exists"]
                  ELSE [pc |-> "loaded", op |-> "add_account", arg |-> username,
                        copy |-> Append(accounts, Account(username, password)),
                        ret |-> ""]]
    /\ UNCHANGED <<configFile, accountsFile>>
    /\ UNCHANGED RaceFrame

\* save_accounts(accounts) and the flash 'Account ... added successfully'
AddAccountSave ==
    /\ \E w \in Writers :
         /\ procs[w].pc = "loaded"
         /\ procs[w].op = "add_account"
         /\ accountsFile' = ListFile(procs[w].copy)
         /\ procs' = [procs EXCEPT ![w].pc = "done", ![w].ret = "added successfully"]
    /\ UNCHANGED configFile
    /\ UNCHANGED RaceFrame

\* add_profile(name, path, account) up to config["profiles"].append(...)
AddProfileLoad ==
    /\ \E w \in Writers, name \in ProfileNames, account \in Usernames :
         LET config == load_config(configFile)
         IN /\ procs[w].pc = "idle"
            /\ configFile' = config
            /\ procs' = [procs EXCEPT ![w] =
                  IF HasName(config.profiles, name)
                  THEN [pc |-> "done", op |-> "add_profile", arg |-> name,
                        copy |-> config, ret |-> "False"]
                  ELSE [pc |-> "loaded", op |-> "add_profile", arg |-> name,
                        copy |-> [config EXCEPT !.profiles =
                                     Append(@, Profile(name, DefaultProfilePath(name),
                                                       account))],
                        ret |-> ""]]
    /\ UNCHANGED accountsFile
    /\ UNCHANGED RaceFrame

\* return save_config(config)
AddProfileSave ==
    /\ \E w \in Writers :
         /\ procs[w].pc = "loaded"
         /\ procs[w].op = "add_profile"
         /\ configFile' = procs[w].copy
         /\ procs' = [procs EXCEPT ![w].pc = "done", ![w].ret = "True"]
    /\ UNCHANGED accountsFile
    /\ UNCHANGED RaceFrame

InitRace ==
    /\ configFile \in {MissingConfig,
                       [exists |-> TRUE, profiles |-> <<SeedProfile(1)>>,
                        randomize_order |-> TRUE]}
    /\ accountsFile \in {MissingAccounts, SeedAccounts}
    /\ populated = {}
    /\ directUrlFile = MissingText
    /\ businessUrlFile = MissingText
    /\ taskFiles = [id \in TaskIds |-> MissingTask]
    /\ now = 0
    /\ req = NoRequest
    /\ task = IdleTask
    /\ batch = IdleBatch
    /\ lastReview = NoReview
    /\ last = NoOperation
    /\ chrome = NoChrome
    /\ procs = [w \in Writers |-> IdleWriter]

NextRace ==
    \/ AddAccountLoad
    \/ AddAccountSave
    \/ AddProfileLoad
    \/ AddProfileSave

SpecRace == InitRace /\ [][NextRace]_vars

(* ============================== claims ================================= *)
\* the entries of a step log that belong to the steps of `keep`
RECURSIVE Only(_, _)
Only(s, keep) ==
    IF s = <<>> THEN <<>>
    ELSE (IF Head(s).step \in keep THEN <<Head(s)>> ELSE <<>>) \o Only(Tail(s), keep)

CountOk(calls) == Cardinality({ k \in 1..Len(calls) : calls[k].ok })

UsedBy(calls) == [k \in 1..Len(calls) |-> calls[k].profile]

\* C1: the status file says 'running' from before the target function is
\* invoked until the final write, and once run_function_and_update_status has
\* returned it says 'completed' if the function returned and 'failed' if the
\* import, the lookup or the function raised; it never still says 'running'.
C1_StatusFollowsOutcome ==
    /\ task.pc \in {"running", "calling", "finishing"} =>
         /\ taskFiles[task.id].exists
         /\ taskFiles[task.id].status = "running"
    /\ task.pc = "done" =>
         /\ taskFiles[task.id].exists
         /\ task.outcome = "returned" => taskFiles[task.id].status = "completed"
         /\ task.outcome # "returned" => taskFiles[task.id].status = "failed"
         /\ taskFiles[task.id].status # "running"

C1_Witness ==
    /\ task.pc = "done"
    /\ task.outcome = "returned"
    /\ taskFiles[task.id].status = "completed"
    /\ taskFiles[task.id].result = Some("0")

\* C2: a POST to /post_review with a rating from 1 to 5 ends with a task that
\* called post_review with the profile, the rating and the text, and whose
\* status file says 'completed'.
C2_ReviewTaskCompletes ==
    (task.func = "post_review" /\ task.pc = "done" /\ task.outcome # "ImportError") =>
        /\ lastReview.called
        /\ lastReview.caller = "task"
        /\ lastReview.profile = task.args.profile
        /\ lastReview.rating = Some(task.args.rating)
        /\ lastReview.review_text = task.args.review_text
        /\ taskFiles[task.id].status = "completed"

\* C3: a POST to /batch_reviews with num_reviews > 0 and delay >= 0 ends with
\* a task in which num_reviews reviews were attempted and whose status file
\* says 'completed'.
C3_BatchTaskPostsAll ==
    (task.func = "run_batch_reviews" /\ task.pc = "done"
        /\ task.outcome # "ImportError") =>
        /\ Len(batch.calls) = task.args.num_reviews
        /\ taskFiles[task.id].status = "completed"

C5_ClaimedSteps ==
    {"initialize_chrome_driver", "login_to_google", "get_url",
     "find_and_click_review_button", "set_star_rating", "enter_review_text",
     "submit_review"}

C5_Log == Only(lastReview.steps, C5_ClaimedSteps)

C5_TrueOnlyAfterAllSteps ==
    lastReview.called =>
        /\ lastReview.result =>
             /\ [k \in 1..Len(C5_Log) |-> C5_Log[k].step] =
                  IF directUrlFile.exists
                  THEN <<"initialize_chrome_driver", "login_to_google", "get_url",
                         "set_star_rating", "enter_review_text", "submit_review">>
                  ELSE <<"initialize_chrome_driver", "login_to_google", "get_url",
                         "find_and_click_review_button", "set_star_rating",
                         "enter_review_text", "submit_review">>
             /\ \A k \in 1..Len(C5_Log) : C5_Log[k].outcome = "ok"
        /\ \A k \in 1..Len(C5_Log) :
             C5_Log[k].outcome # "ok" =>
                 /\ k = Len(C5_Log)
                 /\ ~lastReview.result

C5_Witness ==
    /\ lastReview.called
    /\ lastReview.result
    /\ ~directUrlFile.exists
    /\ Len(lastReview.steps) = 9

\* C6: a front end starts a batch or a background task only on valid input:
\* the number of reviews is an integer above 0 and the delay an integer not
\* below 0 for the three batch front ends, the rating an integer from 1 to 5
\* for /post_review.
IsIntegerText(f) ==
    /\ ~IsNone(f)
    /\ \E i, j \in 1..Len(Get(f)) :
         /\ i <= j
         /\ \A k \in 1..Len(Get(f)) : (k < i \/ k > j) => Get(f)[k] = " "
         /\ \/ Get(f)[i] \in Digits
            \/ Get(f)[i] \in {"+", "-"} /\ i < j
         /\ \A k \in (i + 1)..j : Get(f)[k] \in Digits

C6_WorkStarted == task.pc # "idle" \/ batch.pc # "idle"

C6_NoWorkOnInvalidInput ==
    /\ (C6_WorkStarted /\ req.front \in {"batch_reviews", "post_batch_reviews",
                                         "test_batch_reviews"}) =>
          /\ IsIntegerText(req.num_reviews)
          /\ PyInt(req.num_reviews).val > 0
          /\ IsIntegerText(req.delay)
          /\ PyInt(req.delay).val >= 0
    /\ (C6_WorkStarted /\ req.front = "post_review_route") =>
          /\ IsIntegerText(req.rating)
          /\ PyInt(req.rating).val \in 1..5

C6_Witness ==
    /\ req.front = "batch_reviews"
    /\ req.outcome = "rejected"
    /\ req.num_reviews = Some(<<"2">>)
    /\ req.delay = Some(<<"-", "1">>)
    /\ ~C6_WorkStarted

\* C7: the profiles run_batch_reviews selects for a batch of n reviews over
\* p >= 1 profiles hold each profile floor(n/p) or ceil(n/p) times, in shuffled
\* order too; the reviews use them in that order, so that when the batch
\* returns each profile was used floor(n/p) or ceil(n/p) times, and at most
\* once when n <= p.
C7_Floor == batch.num_reviews \div Len(batch.profiles)

C7_Ceil == (batch.num_reviews + Len(batch.profiles) - 1) \div Len(batch.profiles)

C7_RotationIsEven ==
    /\ (batch.pc \in {"prompt", "loop", "raised"} /\ batch.profiles # <<>>) =>
          /\ Len(batch.selected) = batch.num_reviews
          /\ \A idx \in 1..Len(batch.profiles) :
                Count(batch.selected, idx) \in {C7_Floor, C7_Ceil}
          /\ UsedBy(batch.calls) = Take(batch.selected, batch.i)
    /\ (batch.pc = "returned" /\ batch.profiles # <<>>) =>
          /\ \A idx \in 1..Len(batch.profiles) :
                Count(UsedBy(batch.calls), idx) \in {C7_Floor, C7_Ceil}
          /\ batch.num_reviews <= Len(batch.profiles) =>
                \A idx \in 1..Len(batch.profiles) :
                    Count(UsedBy(batch.calls), idx) <= 1

C7_Witness ==
    /\ batch.pc = "returned"
    /\ Len(batch.profiles) = 2
    /\ batch.num_reviews = 3
    /\ batch.selected # SelectProfiles(3, 2)
    /\ Count(UsedBy(batch.calls), 1) = 2
    /\ Count(UsedBy(batch.calls), 2) = 1

\* C8: no two stored profiles ever have the same name; add_profile with a
\* name that is stored returns False and remove_profile with a name that is
\* not stored returns False, and both then leave the stored list as it was.
C8_Profiles == configFile.profiles

C8_UniqueNames ==
    \A i, j \in 1..Len(C8_Profiles) :
        i # j => C8_Profiles[i].name # C8_Profiles[j].name

C8_Rejects ==
    /\ (last'.op = "add_profile" /\ HasName(C8_Profiles, last'.arg)) =>
          /\ last'.ret = "False"
          /\ C8_Profiles' = C8_Profiles
    /\ (last'.op = "remove_profile" /\ ~HasName(C8_Profiles, last'.arg)) =>
          /\ last'.ret = "False"
          /\ C8_Profiles' = C8_Profiles

C8_ProfileNamesStayUnique == []C8_UniqueNames /\ [][C8_Rejects]_vars

C8_Witness ==
    /\ last.op = "add_profile"
    /\ last.ret = "False"
    /\ Len(configFile.profiles) = 2
    /\ HasName(configFile.profiles, last.arg)

\* C9: accounts.yaml never holds two accounts with the same username, whether
\* the accounts are added through the dashboard or through the terminal menu.
C9_UniqueUsernames ==
    \A i, j \in 1..Len(accountsFile.accts) :
        i # j => accountsFile.accts[i].username # accountsFile.accts[j].username

\* C10: after import_accounts_to_profiles has returned True, every account of
\* accounts.yaml that has a username has a stored profile whose account is
\* that username.
C10_EveryAccountHasProfile ==
    (last.op = "import_accounts_to_profiles" /\ last.ret = "True") =>
        \A i \in 1..Len(accountsFile.accts) :
            accountsFile.accts[i].username # <<>> =>
                \E k \in 1..Len(configFile.profiles) :
                    configFile.profiles[k].account = accountsFile.accts[i].username

\* C11: initialize_profile returns True only if the session of the profile's
\* browser is logged in to the Google account named in profile['account'].
C11_LoggedInAsAccount ==
    (chrome.pc = "done" /\ chrome.ret = "True") =>
        chrome.session = Some(Get(chrome.profile).account)

\* C12: generate_review_url and set_direct_review_url write
\* direct_review_url.txt and business_url.txt together and only when a place
\* ID was found: then the first holds the writereview address followed by the
\* place ID and the second the business URL; when no place ID was found
\* neither file is modified.
C12_Step ==
    last'.op \in {"generate_review_url", "set_direct_review_url"} =>
        /\ last'.ret = "success" <=> ~IsNone(last'.arg.place_id)
        /\ last'.ret = "success" =>
              /\ directUrlFile' =
                    TextFile(<<"https://search.google.com/local/writereview?placeid=">>
                             \o Get(last'.arg.place_id))
              /\ businessUrlFile' = TextFile(last'.arg.business_url)
        /\ last'.ret # "success" =>
              /\ directUrlFile' = directUrlFile
              /\ businessUrlFile' = businessUrlFile

C12_FilesWrittenTogether == [][C12_Step]_vars

C12_Witness ==
    /\ last.op = "generate_review_url"
    /\ last.ret = "success"
    /\ last.arg.place_id = Some(CidPair)
    /\ businessUrlFile = TextFile(CidPair)
    /\ directUrlFile.exists
    /\ Len(directUrlFile.text) = 8

\* C13: extract_place_id_from_url returns the value of a place_id= or
\* placeid= parameter when the URL has one; otherwise, for a URL that contains
\* a pair 0x<hex>:0x<hex>, that whole pair; and None when the URL contains
\* none of the recognised forms. The three copies return the same result.
C13_ParamAt(url, key, i) ==
    /\ i + Len(key) <= Len(url)
    /\ SubSeq(url, i, i + Len(key) - 1) = key
    /\ url[i + Len(key)] # "&"

C13_HasParam(url) ==
    \E key \in {PlaceIdEq, PlaceidEq}, i \in 1..Len(url) : C13_ParamAt(url, key, i)

\* v is the value of a parameter: what follows the key up to the next '&'
C13_IsParamValue(url, v) ==
    \E key \in {PlaceIdEq, PlaceidEq}, i \in 1..Len(url) :
        /\ C13_ParamAt(url, key, i)
        /\ LET from == i + Len(key)
               to == from + Len(v) - 1
           IN /\ to <= Len(url)
              /\ v = SubSeq(url, from, to)
              /\ \A j \in 1..Len(v) : v[j] # "&"
              /\ to = Len(url) \/ url[to + 1] = "&"

\* v is 0x<hex>:0x<hex>
C13_IsPair(v) ==
    \E c \in 4..(Len(v) - 3) :
        /\ SubSeq(v, 1, 2) = <<"0", "x">>
        /\ \A j \in 3..(c - 1) : v[j] \in HexDigits
        /\ SubSeq(v, c, c + 2) = <<":", "0", "x">>
        /\ \A j \in (c + 3)..Len(v) : v[j] \in HexDigits

C13_PairAt(url, i, n) == i + n - 1 <= Len(url) /\ C13_IsPair(SubSeq(url, i, i + n - 1))

C13_HasPair(url) == \E i, n \in 1..Len(url) : C13_PairAt(url, i, n)

\* v is the first pair of the URL, in full
C13_IsFirstPair(url, v) ==
    \E i \in 1..Len(url) :
        /\ C13_PairAt(url, i, Len(v))
        /\ v = SubSeq(url, i, i + Len(v) - 1)
        /\ \A n \in (Len(v) + 1)..Len(url) : ~C13_PairAt(url, i, n)
        /\ \A h \in 1..(i - 1), n \in 1..Len(url) : ~C13_PairAt(url, h, n)

C13_HasDataSegment(url) == ~IsNone(FirstMatch(data_patterns, url))

C13_ExtractsPlaceId ==
    last.op = "extract_place_id_from_url" =>
        LET url == last.arg
            place_id == last.ret.app
        IN /\ last.ret.menu = place_id
           /\ last.ret.test = place_id
           /\ C13_HasParam(url) =>
                 ~IsNone(place_id) /\ C13_IsParamValue(url, Get(place_id))
           /\ (~C13_HasParam(url) /\ C13_HasPair(url)) =>
                 ~IsNone(place_id) /\ C13_IsFirstPair(url, Get(place_id))
           /\ (~C13_HasParam(url) /\ ~C13_HasPair(url) /\ ~C13_HasDataSegment(url)) =>
                 IsNone(place_id)

C13_Witness ==
    /\ last.op = "extract_place_id_from_url"
    /\ last.arg = CidPair \o <<"0", "x", "a">>
    /\ last.ret.test = Some(CidPair \o <<"0">>)

\* C14: when post_review is called with a rating r from 1 to 5 and no review
\* text, the text entered is one of the canned sentences of the r-star list.
C14_TextFollowsRating ==
    (/\ lastReview.called
     /\ IsNone(lastReview.review_text)
     /\ ~IsNone(lastReview.entered)) =>
        Get(lastReview.entered) \in
            <<negative_reviews, poor_reviews, average_reviews, good_reviews,
              excellent_reviews>>[Get(lastReview.rating)]

\* C15: once the status file of a task holds 'completed' or 'failed' it never
\* shows 'running' again and its result or error is not lost, also when
\* update_task_progress runs beside the final write of
\* run_function_and_update_status for the same task_id.
C15_Step ==
    \A id \in TaskIds :
        (taskFiles[id].exists /\ taskFiles[id].status \in {"completed", "failed"}) =>
            /\ taskFiles'[id].exists
            /\ taskFiles'[id].status = taskFiles[id].status
            /\ taskFiles'[id].result = taskFiles[id].result
            /\ taskFiles'[id].error = taskFiles[id].error

C15_FinalStatusStays == [][C15_Step]_vars

\* C16: an account for which the dashboard answered 'added successfully' is
\* in accounts.yaml, and a profile for which add_profile returned True is in
\* chrome_profiles.yaml, as long as nothing deletes them, also when two
\* requests or processes read and rewrite the same file at the same time.
C16_AcknowledgedStays ==
    \A w \in DOMAIN procs :
        /\ (procs[w].op = "add_account" /\ procs[w].ret = "added successfully") =>
              HasUsername(accountsFile.accts, procs[w].arg)
        /\ (procs[w].op = "add_profile" /\ procs[w].ret = "True") =>
              HasName(configFile.profiles, procs[w].arg)

====
